---- MODULE Spec2Model ----
(***************************************************************************)
(* Model of src/database/sql/util.go: the delta-encoded, LRU-evicted       *)
(* coordinate cache (package cache: packNodes/unpackNodes, CoordsBunch,     *)
(* DeltaCoordsCache) with its callers as concurrent processes.              *)
(*                                                                         *)
(* Go slices are modelled as (backing array, length) pairs over a heap of   *)
(* arrays, CoordsBunch values as heap objects, so that a bunch that was     *)
(* evicted while a caller still holds it, and a buffer handed out again     *)
(* from freeNodes, are the same memory the code makes them.                 *)
(*                                                                         *)
(* The two helpers of package sql in the same file have their own           *)
(* specifications: workerPool (PoolSpec, FairPoolSpec) and                  *)
(* dropTableIfExists (DropSpec). StoreSpec is the cache on a store whose    *)
(* Put fails.                                                               *)
(***************************************************************************)
EXTENDS Integers, Sequences, FiniteSets, TLC

VARIABLES
    capacity,   \* DeltaCoordsCache.capacity
    table,      \* DeltaCoordsCache.table : bunchId -> object (0 = no entry)
    lruList,    \* DeltaCoordsCache.lruList, front first; elements [e, Value]
    bunches,    \* heap of CoordsBunch objects
    arrays,     \* heap of backing arrays of []element.Node
    freeNodes,  \* DeltaCoordsCache.freeNodes
    mu,         \* DeltaCoordsCache.mu : holder (0 = free)
    db,         \* the key-value store behind Cache.db : key -> DeltaCoords
    closed,     \* Close() has run
    pc,         \* position of each caller
    frame,      \* locals of each caller's call in flight (or last call)
    budget,     \* calls that may still be started
    inserted,   \* history: inserted[id] = coordinates passed to PutCoords
    overlap,    \* history: two calls were in flight at the same time
    recency,    \* history: bunch ids by their latest getBunch, latest first
    evlog,      \* history: the latest eviction
    fault,      \* the store's Put fails; history: whose flush it failed
    codec,      \* state of the codec round-trip specification
    pool,       \* a workerPool with its goroutines and its caller
    tx          \* a transaction with a dropTableIfExists call on it

vars == <<capacity, table, lruList, bunches, arrays, freeNodes, mu, db, closed,
          pc, frame, budget, inserted, overlap, recency, evlog, fault, codec,
          pool, tx>>

cacheVars == <<capacity, table, lruList, bunches, arrays, freeNodes, mu, db,
               closed, pc, frame, budget, inserted, overlap, recency, evlog,
               fault>>

----------------------------------------------------------------------------
(* Bounds *)

NumProcs == 2        \* concurrent callers
MaxCapacity == 2     \* capacity is drawn from 1..MaxCapacity
MaxBunch == 2        \* bunch ids 0..MaxBunch
MaxOff == 1          \* identifiers 0..MaxOff in bunch 0
MaxCoord == 1        \* longitudes 1..MaxCoord
MaxLen == 2          \* length of a PutCoords input
MaxRefs == 2         \* length of a way's reference list
MaxCalls == 2        \* calls started in one behaviour

(* Program constants *)

BunchSize == 64
\* The model checker's integers are 32-bit signed, so the uint32 ring of the
\* fixed-point coordinates is kept as a ring of 2^30 values with the 180
\* degree shift in its middle; the coordinates of the model stay far from
\* the wrap-around, as real coordinates do.
Uint32 == 1073741824
CoordOffset == 536870912

Procs == 1..NumProcs
BunchIds == 0..MaxBunch
\* the first identifier of every bunch, and MaxOff more in bunch 0
NodeIds == { b * BunchSize : b \in BunchIds } \cup 0..MaxOff
Coords == 1..MaxCoord
\* input records: the latitude of a record differs from every longitude
NodeSet == { [Id |-> id, Long |-> c, Lat |-> c + MaxCoord] :
               id \in NodeIds, c \in Coords }
ObjIds == 1..(MaxCapacity + 1 + NumProcs)
ArrIds == 1..(MaxCapacity + 3 + NumProcs)
ElemIds == 1..(MaxCapacity + 2)

ZeroNode == [Id |-> 0, Long |-> 0, Lat |-> 0]
NilSlice == [arr |-> 0, len |-> 0]
NoObj == [id |-> -1, coords |-> NilSlice, elem |-> 0, needsWrite |-> FALSE,
          lock |-> 0, put |-> FALSE]
NoData == [Ids |-> <<>>, Lats |-> <<>>, Lons |-> <<>>, present |-> FALSE]
\* a store whose Put succeeds, and no flush failed
NoFault == [put |-> FALSE, dropped |-> {}]
NoCodec == [phase |-> "off", x |-> <<>>, dc |-> NoData, y |-> <<>>]
NoPool == [phase |-> "off"]
NoTx == [phase |-> "off"]

SeqsUpTo(S, n) == UNION { [1..k -> S] : k \in 0..n }

Min(S) == CHOOSE x \in S : \A y \in S : x <= y

----------------------------------------------------------------------------
(* Coordinate codec *)

\* binary.CoordToInt / binary.IntToCoord: degrees <-> uint32 fixed point.
\* A coordinate is represented by its number of fixed-point steps from 0
\* degrees; the transform shifts by 180 degrees.
CoordToInt(c) == (c + CoordOffset) % Uint32
IntToCoord(i) == i - CoordOffset

RECURSIVE packFrom(_, _, _, _, _, _)
packFrom(nodes, i, lastId, lastLon, lastLat, acc) ==
    IF i > Len(nodes) THEN acc
    ELSE LET nd == nodes[i]
             lon == CoordToInt(nd.Long)
             lat == CoordToInt(nd.Lat)
         IN packFrom(nodes, i + 1, nd.Id, lon, lat,
                     [Ids |-> Append(acc.Ids, nd.Id - lastId),
                      Lats |-> Append(acc.Lats, lat - lastLat),
                      Lons |-> Append(acc.Lons, lon - lastLon),
                      present |-> TRUE])

packNodes(nodes) ==
    packFrom(nodes, 1, 0, 0, 0,
             [Ids |-> <<>>, Lats |-> <<>>, Lons |-> <<>>, present |-> TRUE])

\* the loop of unpackNodes: the decoded records, in order
RECURSIVE unpackFrom(_, _, _, _, _, _)
unpackFrom(dc, i, lastId, lastLon, lastLat, acc) ==
    IF i > Len(dc.Ids) THEN acc
    ELSE LET id == lastId + dc.Ids[i]
             lon == lastLon + dc.Lats[i]
             lat == lastLat + dc.Lons[i]
         IN unpackFrom(dc, i + 1, id, lon, lat,
                       Append(acc, [Id |-> id,
                                    Long |-> IntToCoord(lon % Uint32),
                                    Lat |-> IntToCoord(lat % Uint32)]))

unpackRecords(dc) == unpackFrom(dc, 1, 0, 0, 0, <<>>)

----------------------------------------------------------------------------
(* Slices over the array heap *)

Cap(s, arrs) == IF s.arr = 0 THEN 0 ELSE Len(arrs[s.arr])

SliceData(s, arrs) == IF s.arr = 0 THEN <<>> ELSE SubSeq(arrs[s.arr], 1, s.len)

\* the smallest array cell that holds no array
NewArr(arrs) == Min({ a \in ArrIds : arrs[a] = <<>> })

\* ws written over positions from+1 .. from+Len(ws) of array a
WriteAt(a, from, ws) ==
    [k \in 1..Len(a) |-> IF k > from /\ k <= from + Len(ws) THEN ws[k - from]
                         ELSE a[k]]

Zeros(n) == [k \in 1..n |-> ZeroNode]

\* append(s, xs...): in place while the capacity lasts, else a grown copy
GrowCap(cap, need) == IF need > 2 * cap THEN need ELSE 2 * cap

AppendSlice(s, xs, arrs) ==
    LET need == s.len + Len(xs) IN
    IF Len(xs) = 0 THEN [slice |-> s, arrays |-> arrs]
    ELSE IF need <= Cap(s, arrs)
    THEN [slice |-> [arr |-> s.arr, len |-> need],
          arrays |-> [arrs EXCEPT ![s.arr] = WriteAt(@, s.len, xs)]]
    ELSE LET a == NewArr(arrs)
             body == SliceData(s, arrs) \o xs
         IN [slice |-> [arr |-> a, len |-> need],
             arrays |-> [arrs EXCEPT ![a] =
                            body \o Zeros(GrowCap(Cap(s, arrs), need) - need)]]

\* unpackNodes: decode into nodes when its capacity suffices, else allocate
unpackNodes(dc, nodes, arrs) ==
    LET n == Len(dc.Ids)
        recs == unpackRecords(dc)
    IN IF n > Cap(nodes, arrs)
       THEN LET a == NewArr(arrs)
            IN [slice |-> [arr |-> a, len |-> n],
                arrays |-> [arrs EXCEPT ![a] = recs]]
       ELSE IF nodes.arr = 0 THEN [slice |-> NilSlice, arrays |-> arrs]
       ELSE [slice |-> [arr |-> nodes.arr, len |-> n],
             arrays |-> [arrs EXCEPT ![nodes.arr] = WriteAt(@, 0, recs)]]

----------------------------------------------------------------------------
(* sort.Sort(Nodes(...)) and sort.Search *)

\* every place where nd may go into the Id-sorted sequence s
InsertSorted(s, nd) ==
    { SubSeq(s, 1, k) \o <<nd>> \o SubSeq(s, k + 1, Len(s)) :
        k \in { j \in 0..Len(s) :
                  /\ \A m \in 1..j : s[m].Id <= nd.Id
                  /\ \A m \in (j + 1)..Len(s) : nd.Id <= s[m].Id } }

\* sort.Sort is not stable: every Id-ascending arrangement of s
RECURSIVE SortOutcomes(_)
SortOutcomes(s) ==
    IF Len(s) = 0 THEN { <<>> }
    ELSE UNION { InsertSorted(t, s[Len(s)]) :
                   t \in SortOutcomes(SubSeq(s, 1, Len(s) - 1)) }

\* sort.Search(n, f) with f(i) = coords[i].Id >= id, on 0-based i in [lo, hi)
RECURSIVE Search(_, _, _, _)
Search(coords, id, lo, hi) ==
    IF lo >= hi THEN lo
    ELSE LET h == lo + ((hi - lo) \div 2)
         IN IF ~(coords[h + 1].Id >= id) THEN Search(coords, id, h + 1, hi)
            ELSE Search(coords, id, lo, h)

\* the body of GetCoord on the coordinate sequence of the acquired bunch
FindCoord(coords, id) ==
    LET idx == Search(coords, id, 0, Len(coords))
    IN IF idx < Len(coords) /\ coords[idx + 1].Id = id
       THEN [node |-> coords[idx + 1], found |-> TRUE]
       ELSE [node |-> ZeroNode, found |-> FALSE]

\* getBunchId: Go's integer division truncates toward zero
getBunchId(nodeId) ==
    IF nodeId >= 0 THEN nodeId \div BunchSize ELSE -((-nodeId) \div BunchSize)

\* bin.PutVarint(keyBuf, bunchId): the zig-zag value whose varint is the key
PutVarint(bunchId) == IF bunchId >= 0 THEN 2 * bunchId ELSE -2 * bunchId - 1

Keys == { PutVarint(b) : b \in BunchIds }

----------------------------------------------------------------------------
(* container/list operations used on lruList *)

PushFront(l, e, v) == <<[e |-> e, Value |-> v]>> \o l

InList(l, e) == \E k \in 1..Len(l) : l[k].e = e

\* a Remove that leaves the element in the list
RemoveNone(l, e) == l

RemoveElem(l, e) == SelectSeq(l, LAMBDA x : x.e # e)

\* an access that leaves the recency order as it was
MoveToFrontStale(l, e) == l

MoveToFront(l, e) ==
    IF ~InList(l, e) THEN l
    ELSE LET k == CHOOSE j \in 1..Len(l) : l[j].e = e
         IN <<l[k]>> \o RemoveElem(l, e)

\* the most recently used end of the list
Front(l) == l[1]

Back(l) == l[Len(l)]

\* a list element and a bunch object that are not in use
NewElem(l, bs) ==
    Min({ e \in ElemIds : ~InList(l, e) /\ \A o \in ObjIds : bs[o].elem # e })

NewObj(bs) == Min({ o \in ObjIds : bs[o] = NoObj })

----------------------------------------------------------------------------
(* Backing-store adapter *)

\* putCoordsPacked: the store after the call (proto.Marshal keeps the three
\* integer sequences as they are). A Put that fails leaves the store as it
\* was; the error it returns is not looked at.
putCoordsPacked(bunchId, nodes, store) ==
    IF Len(nodes) = 0 THEN store
    ELSE IF fault.put THEN store
    ELSE [store EXCEPT ![PutVarint(bunchId)] = packNodes(nodes)]

\* the flush of bunch calls p.db.Put and Put returns an error
PutFails(bunch) == fault.put /\ bunch.needsWrite /\ bunch.coords.len > 0

\* getCoordsPacked: the slice returned and the array heap after the call
getCoordsPacked(bunchId, nodes, arrs, store) ==
    LET data == store[PutVarint(bunchId)]
    IN IF ~data.present
       THEN [slice |-> [arr |-> nodes.arr, len |-> 0], arrays |-> arrs]
       ELSE unpackNodes(data, nodes, arrs)

----------------------------------------------------------------------------
(* Reachability in the two heaps: what the garbage collector keeps *)

LiveObjs(tbl, fr) ==
    ({ tbl[b] : b \in BunchIds } \cup { fr[p].bunch : p \in Procs }) \ {0}

GcBunches(bs, tbl, fr) ==
    [o \in ObjIds |-> IF o \in LiveObjs(tbl, fr) THEN bs[o] ELSE NoObj]

LiveArrs(bs, free) ==
    { bs[o].coords.arr : o \in ObjIds } \cup
    { free[k].arr : k \in 1..Len(free) }

GcArrays(arrs, bs, free) ==
    [a \in ArrIds |-> IF a \in LiveArrs(bs, free) THEN arrs[a] ELSE <<>>]

----------------------------------------------------------------------------
(* Callers *)

NoWay == [nil |-> TRUE, Refs |-> <<>>, Nodes |-> <<>>]

NoFrame == [op |-> "none", id |-> 0, bunchId |-> 0, bunch |-> 0,
            nodes |-> <<>>, start |-> 0, runEnd |-> 0,
            way |-> NoWay, i |-> 0, founds |-> <<>>,
            node |-> ZeroNode, found |-> FALSE, ret |-> FALSE, known |-> {}]

NoEvict == [id |-> -1, put |-> FALSE, needsWrite |-> FALSE, held |-> 0,
            len |-> 0]

Resident(tbl) == { b \in BunchIds : tbl[b] # 0 }

\* the end of the run of nodes that starts after position start: the loop of
\* PutCoords runs on until the bunch id changes
RECURSIVE RunEnd(_, _, _)
RunEnd(nodes, start, i) ==
    IF i > Len(nodes) THEN Len(nodes)
    ELSE IF getBunchId(nodes[i].Id) # getBunchId(nodes[start + 1].Id)
         THEN i - 1
         ELSE RunEnd(nodes, start, i + 1)

\* the coordinates put by nodes, added to the history
Record(ins, nodes) ==
    [id \in NodeIds |->
        ins[id] \cup { <<nodes[k].Long, nodes[k].Lat>> :
                         k \in { j \in 1..Len(nodes) : nodes[j].Id = id } }]

OthersInFlight(p) == \E q \in Procs \ {p} : pc[q] # "idle"

CanCall(p) == pc[p] = "idle" /\ budget > 0 /\ ~closed

\* history: a new call of p starts with no failed flush
Started(p) == [fault EXCEPT !.dropped = @ \ {p}]

----------------------------------------------------------------------------
(* getBunch and CheckCapacity *)

\* a flush that does not look at needsWrite
FlushAlways(bunch, bunchId, arrs, store) ==
    putCoordsPacked(bunchId, SliceData(bunch.coords, arrs), store)

\* the flush of CheckCapacity and Close: written only when needsWrite is set
FlushBunch(bunch, bunchId, arrs, store) ==
    IF bunch.needsWrite
    THEN putCoordsPacked(bunchId, SliceData(bunch.coords, arrs), store)
    ELSE store

\* one iteration of the loop of CheckCapacity on the cache state st
EvictBack(st, arrs) ==
    LET elem == Back(st.lruList)
        bunchId == elem.Value
        o == st.table[bunchId]
        bunch == st.bunches[o]
        store == FlushBunch(bunch, bunchId, arrs, st.db)
    IN [table |-> [st.table EXCEPT ![bunchId] = 0],
        lruList |-> RemoveElem(st.lruList, elem.e),
        bunches |-> [st.bunches EXCEPT ![o].elem = 0],
        db |-> store,
        putErr |-> (st.putErr \/ PutFails(bunch)),
        freeNodes |-> Append(st.freeNodes, bunch.coords),
        evlog |-> [id |-> bunchId, put |-> bunch.put,
                   needsWrite |-> bunch.needsWrite, held |-> bunch.lock,
                   len |-> bunch.coords.len]]

\* a capacity check that tolerates one bunch too many
RECURSIVE CheckCapacityLate(_, _, _)
CheckCapacityLate(st, arrs, cap) ==
    IF Cardinality(Resident(st.table)) > cap + 1
    THEN CheckCapacityLate(EvictBack(st, arrs), arrs, cap)
    ELSE st

RECURSIVE CheckCapacity(_, _, _)
CheckCapacity(st, arrs, cap) ==
    IF Cardinality(Resident(st.table)) > cap
    THEN CheckCapacity(EvictBack(st, arrs), arrs, cap)
    ELSE st

\* getBunch from mu.Lock() to the point where it asks for the bunch's lock,
\* run by p with the locals f: the table lookup, and on a miss the load into
\* a buffer from freeNodes
Lookup(p, f) ==
    /\ mu = 0
    /\ mu' = p
    /\ LET bunchId == f.bunchId IN
       /\ recency' = <<bunchId>> \o SelectSeq(recency, LAMBDA b : b # bunchId)
       /\ IF table[bunchId] = 0
          THEN LET e == NewElem(lruList, bunches)
                   o == NewObj(bunches)
                   nodes == IF Len(freeNodes) > 0
                            THEN freeNodes[Len(freeNodes)] ELSE NilSlice
               IN \E got \in { getCoordsPacked(bunchId, nodes, arrays, db) } :
                  /\ lruList' = PushFront(lruList, e, bunchId)
                  /\ freeNodes' = IF Len(freeNodes) > 0
                                  THEN SubSeq(freeNodes, 1, Len(freeNodes) - 1)
                                  ELSE freeNodes
                  /\ arrays' = got.arrays
                  /\ bunches' = [bunches EXCEPT ![o] =
                                   [id |-> bunchId, coords |-> got.slice,
                                    elem |-> e, needsWrite |-> FALSE,
                                    lock |-> 0, put |-> FALSE]]
                  /\ table' = [table EXCEPT ![bunchId] = o]
                  /\ frame' = [frame EXCEPT ![p] = [f EXCEPT !.bunch = o]]
          ELSE /\ lruList' = MoveToFront(lruList, bunches[table[bunchId]].elem)
               /\ frame' = [frame EXCEPT ![p] =
                              [f EXCEPT !.bunch = table[bunchId]]]
               /\ UNCHANGED <<freeNodes, arrays, bunches, table>>
    /\ pc' = [pc EXCEPT ![p] = "gb_block"]
    /\ UNCHANGED <<capacity, db, closed, evlog, codec, pool, tx>>

\* a later getBunch of a call in flight (FillWay's next reference, PutCoords'
\* next run)
GbLookup(p) ==
    /\ pc[p] = "gb_lookup"
    /\ Lookup(p, frame[p])
    /\ UNCHANGED <<budget, overlap, inserted, fault>>

\* bunch.Lock() in getBunch with mu held, then self.CheckCapacity(), the
\* deferred mu.Unlock() and the return of getBunch
GbBlock(p) ==
    /\ pc[p] = "gb_block"
    /\ bunches[frame[p].bunch].lock = 0
    /\ \E st \in { CheckCapacity(
                       [table |-> table, lruList |-> lruList,
                        bunches |-> [bunches EXCEPT ![frame[p].bunch].lock = p],
                        db |-> db, putErr |-> FALSE,
                        freeNodes |-> freeNodes, evlog |-> evlog],
                       arrays, capacity) } :
       \E bs \in { GcBunches(st.bunches, st.table, frame) } :
          /\ table' = st.table
          /\ lruList' = st.lruList
          /\ bunches' = bs
          /\ db' = st.db
          /\ freeNodes' = st.freeNodes
          /\ evlog' = st.evlog
          /\ fault' = IF st.putErr
                      THEN [fault EXCEPT !.dropped = @ \cup {p}] ELSE fault
          /\ arrays' = GcArrays(arrays, bs, st.freeNodes)
    /\ mu' = 0
    /\ pc' = [pc EXCEPT ![p] = IF frame[p].op = "PutCoords" THEN "pc_append"
                               ELSE "gc_search"]
    /\ UNCHANGED <<capacity, closed, frame, budget, inserted, overlap, recency,
                   codec, pool, tx>>

\* GetCoord(id), up to the point where its getBunch asks for the bunch's lock
CallGetCoord(p, id) ==
    /\ CanCall(p)
    /\ Lookup(p, [NoFrame EXCEPT !.op = "GetCoord", !.id = id,
                                 !.bunchId = getBunchId(id),
                                 !.known = inserted[id]])
    /\ budget' = budget - 1
    /\ overlap' = (overlap \/ OthersInFlight(p))
    /\ fault' = Started(p)
    /\ UNCHANGED inserted

\* PutCoords(nodes), up to the point where its first getBunch asks for the
\* bunch's lock
CallPutCoords(p, nodes) ==
    /\ CanCall(p)
    /\ Len(nodes) > 0
    /\ Lookup(p, [NoFrame EXCEPT !.op = "PutCoords", !.nodes = nodes,
                                 !.start = 0,
                                 !.runEnd = RunEnd(nodes, 0, 1),
                                 !.bunchId = getBunchId(nodes[1].Id)])
    /\ budget' = budget - 1
    /\ overlap' = (overlap \/ OthersInFlight(p))
    /\ fault' = Started(p)
    /\ inserted' = Record(inserted, nodes)

\* FillWay(way) on a way with references, up to the point where the getBunch
\* of its first GetCoord asks for the bunch's lock
CallFillWay(p, way) ==
    /\ CanCall(p)
    /\ ~way.nil
    /\ Len(way.Refs) > 0
    /\ Lookup(p, [NoFrame EXCEPT
                    !.op = "FillWay",
                    !.way = [way EXCEPT !.Nodes = Zeros(Len(way.Refs))],
                    !.i = 1,
                    !.id = way.Refs[1],
                    !.bunchId = getBunchId(way.Refs[1])])
    /\ budget' = budget - 1
    /\ overlap' = (overlap \/ OthersInFlight(p))
    /\ fault' = Started(p)
    /\ UNCHANGED inserted

\* FillWay(way) on a nil way or on a way without references: it returns
\* without a call of GetCoord
CallFillWayEmpty(p, way) ==
    /\ CanCall(p)
    /\ way.nil \/ Len(way.Refs) = 0
    /\ frame' = [frame EXCEPT ![p] =
                   [NoFrame EXCEPT !.op = "FillWay", !.way = way,
                                   !.ret = ~way.nil]]
    /\ budget' = budget - 1
    /\ overlap' = (overlap \/ OthersInFlight(p))
    /\ fault' = Started(p)
    /\ UNCHANGED <<capacity, table, lruList, bunches, arrays, freeNodes, mu,
                   db, closed, pc, inserted, recency, evlog, codec, pool, tx>>

----------------------------------------------------------------------------
(* GetCoord, FillWay, PutCoords after getBunch has returned; Close *)

\* a return that forgets the bunch without bunch.Unlock()
ReleasedLocked(p, bs, fr) == GcBunches(bs, table, fr)

\* bunch.Unlock() on the bunch heap bs by p, and the bunch forgotten by p
Released(p, bs, fr) ==
    GcBunches([bs EXCEPT ![frame[p].bunch].lock = 0], table, fr)

\* the return of GetCoord(id) to its caller: r is what the search found
GetCoordReturn(f, r) ==
    [NoFrame EXCEPT !.op = "GetCoord", !.id = f.id, !.known = f.known,
                    !.node = r.node, !.found = r.found]

\* a loop iteration that goes on after a reference that was not found
FillStepOn(f, r) ==
    LET w == [f.way EXCEPT !.Nodes[f.i] = r.node]
        fs == Append(f.founds, r.found)
    IN IF f.i = Len(f.way.Refs)
       THEN [NoFrame EXCEPT !.op = "FillWay", !.way = w, !.founds = fs,
                            !.ret = r.found]
       ELSE [f EXCEPT !.bunch = 0, !.way = w, !.founds = fs, !.i = f.i + 1,
                      !.id = f.way.Refs[f.i + 1],
                      !.bunchId = getBunchId(f.way.Refs[f.i + 1])]

\* one iteration of the loop of FillWay, after GetCoord returned r: the locals
\* of the call after it
FillStep(f, r) ==
    LET w == [f.way EXCEPT !.Nodes[f.i] = r.node]
        fs == Append(f.founds, r.found)
    IN IF ~r.found
       THEN [NoFrame EXCEPT !.op = "FillWay", !.way = w, !.founds = fs,
                            !.ret = FALSE]
       ELSE IF f.i = Len(f.way.Refs)
       THEN [NoFrame EXCEPT !.op = "FillWay", !.way = w, !.founds = fs,
                            !.ret = TRUE]
       ELSE [f EXCEPT !.bunch = 0, !.way = w, !.founds = fs, !.i = f.i + 1,
                      !.id = f.way.Refs[f.i + 1],
                      !.bunchId = getBunchId(f.way.Refs[f.i + 1])]

\* the rest of GetCoord: the binary search and the deferred bunch.Unlock();
\* inside FillWay, the rest of that loop iteration as well
GcSearch(p) ==
    /\ pc[p] = "gc_search"
    /\ \E f \in { frame[p] } :
       \E r \in { FindCoord(SliceData(bunches[f.bunch].coords, arrays),
                            f.id) } :
       \E fr \in { IF f.op = "GetCoord" THEN GetCoordReturn(f, r)
                   ELSE FillStep(f, r) } :
       \E frs \in { [frame EXCEPT ![p] = fr] } :
       \E bs \in { Released(p, bunches, frs) } :
          /\ frame' = frs
          /\ bunches' = bs
          /\ arrays' = GcArrays(arrays, bs, freeNodes)
          /\ pc' = [pc EXCEPT ![p] = IF fr.i > f.i THEN "gb_lookup"
                                     ELSE "idle"]
    /\ UNCHANGED <<capacity, table, lruList, freeNodes, mu, db, closed, budget,
                   inserted, overlap, recency, evlog, fault,
                   codec, pool, tx>>

\* bunch.coords = append(bunch.coords, nodes[start:i]...)
PcAppend(p) ==
    /\ pc[p] = "pc_append"
    /\ \E f \in { frame[p] } :
       \E app \in { AppendSlice(bunches[f.bunch].coords,
                                SubSeq(f.nodes, f.start + 1, f.runEnd),
                                arrays) } :
       \E bs \in { [bunches EXCEPT ![f.bunch].coords = app.slice,
                                   ![f.bunch].put = TRUE] } :
          /\ bunches' = bs
          /\ arrays' = GcArrays(app.arrays, bs, freeNodes)
    /\ pc' = [pc EXCEPT ![p] = "pc_sort"]
    /\ UNCHANGED <<capacity, table, lruList, freeNodes, mu, db, closed, frame,
                   budget, inserted, overlap, recency, evlog, fault,
                   codec, pool, tx>>

\* sort.Sort(Nodes(bunch.coords)), in place
PcSort(p) ==
    /\ pc[p] = "pc_sort"
    /\ LET s == bunches[frame[p].bunch].coords IN
       \E sorted \in SortOutcomes(SliceData(s, arrays)) :
          arrays' = IF s.arr = 0 THEN arrays
                    ELSE [arrays EXCEPT ![s.arr] = WriteAt(@, 0, sorted)]
    /\ pc' = [pc EXCEPT ![p] = "pc_unlock"]
    /\ UNCHANGED <<capacity, table, lruList, bunches, freeNodes, mu, db,
                   closed, frame, budget, inserted, overlap, recency, evlog,
                   fault, codec, pool, tx>>

\* bunch.needsWrite = true and bunch.Unlock(), and then the next run of nodes
\* or the return of PutCoords
PcUnlock(p) ==
    /\ pc[p] = "pc_unlock"
    /\ \E f \in { frame[p] } :
       \E last \in { f.runEnd = Len(f.nodes) } :
       \E fr \in { IF last THEN [NoFrame EXCEPT !.op = "PutCoords"]
                   ELSE [f EXCEPT !.bunch = 0,
                                  !.start = f.runEnd,
                                  !.runEnd = RunEnd(f.nodes, f.runEnd,
                                                    f.runEnd + 1),
                                  !.bunchId =
                                      getBunchId(f.nodes[f.runEnd + 1].Id)] } :
       \E frs \in { [frame EXCEPT ![p] = fr] } :
       \E bs \in { Released(p, [bunches EXCEPT ![f.bunch].needsWrite = TRUE],
                            frs) } :
          /\ frame' = frs
          /\ bunches' = bs
          /\ arrays' = GcArrays(arrays, bs, freeNodes)
          /\ pc' = [pc EXCEPT ![p] = IF last THEN "idle" ELSE "gb_lookup"]
    /\ UNCHANGED <<capacity, table, lruList, freeNodes, mu, db, closed, budget,
                   inserted, overlap, recency, evlog, fault,
                   codec, pool, tx>>

\* the store after Close has flushed the bunches of bs (a set of bunch ids)
RECURSIVE CloseFlush(_, _)
CloseFlush(bs, store) ==
    IF bs = {} THEN store
    ELSE LET b == Min(bs)
         IN CloseFlush(bs \ {b},
                       FlushBunch(bunches[table[b]], b, arrays, store))

\* Close(), called when no other call is in flight
Close ==
    /\ ~closed
    /\ \A p \in Procs : pc[p] = "idle"
    /\ db' = CloseFlush(Resident(table), db)
    /\ fault' = IF \E b \in Resident(table) : PutFails(bunches[table[b]])
                THEN [fault EXCEPT !.dropped = @ \cup {0}] ELSE fault
    /\ closed' = TRUE
    /\ UNCHANGED <<capacity, table, lruList, bunches, arrays, freeNodes, mu,
                   pc, frame, budget, inserted, overlap, recency, evlog, codec,
                   pool, tx>>

----------------------------------------------------------------------------
(* The cache with its callers *)

Ways == { NoWay } \cup
        { [nil |-> FALSE, Refs |-> r, Nodes |-> <<>>] :
            r \in SeqsUpTo(NodeIds, MaxRefs) }

CacheInit ==
    /\ capacity \in 1..MaxCapacity
    /\ table = [b \in BunchIds |-> 0]
    /\ lruList = <<>>
    /\ bunches = [o \in ObjIds |-> NoObj]
    /\ arrays = [a \in ArrIds |-> <<>>]
    /\ freeNodes = <<>>
    /\ mu = 0
    /\ db = [k \in Keys |-> NoData]
    /\ closed = FALSE
    /\ pc = [p \in Procs |-> "idle"]
    /\ frame = [p \in Procs |-> NoFrame]
    /\ budget = MaxCalls
    /\ inserted = [id \in NodeIds |-> {}]
    /\ overlap = FALSE
    /\ recency = <<>>
    /\ evlog = NoEvict

\* the cache on a store that answers, without the other components
Init ==
    /\ CacheInit
    /\ fault = NoFault
    /\ codec = NoCodec
    /\ pool = NoPool
    /\ tx = NoTx

Next ==
    \/ \E p \in Procs, id \in NodeIds : CallGetCoord(p, id)
    \/ \E p \in Procs, nodes \in SeqsUpTo(NodeSet, MaxLen) :
          CallPutCoords(p, nodes)
    \/ \E p \in Procs, way \in Ways : CallFillWay(p, way)
    \/ \E p \in Procs, way \in Ways : CallFillWayEmpty(p, way)
    \/ \E p \in Procs : GbLookup(p)
    \/ \E p \in Procs : GbBlock(p)
    \/ \E p \in Procs : GcSearch(p)
    \/ \E p \in Procs : PcAppend(p)
    \/ \E p \in Procs : PcSort(p)
    \/ \E p \in Procs : PcUnlock(p)
    \/ Close

Spec == Init /\ [][Next]_vars

----------------------------------------------------------------------------
(* The codec alone: unpackNodes after packNodes on a sorted sequence *)

MaxCodecLen == 2      \* length of an encoded sequence
MaxCodecCoord == 2    \* coordinates 1..MaxCodecCoord, and the two extremes

CodecCoords == 1..MaxCodecCoord \cup { -CoordOffset, CoordOffset - 1 }

CodecNodes == [Id : NodeIds, Long : CodecCoords, Lat : CodecCoords]

\* identifier-sorted, duplicate-free sequences
SortedSeqs == { x \in SeqsUpTo(CodecNodes, MaxCodecLen) :
                  \A k \in 1..(Len(x) - 1) : x[k].Id < x[k + 1].Id }

CodecInit ==
    /\ CacheInit
    /\ capacity = 1
    /\ fault = NoFault
    /\ pool = NoPool
    /\ tx = NoTx
    /\ \E x \in SortedSeqs :
          codec = [phase |-> "nodes", x |-> x, dc |-> NoData, y |-> <<>>]

\* deltaCoords := packNodes(nodes)
Encode ==
    /\ codec.phase = "nodes"
    /\ codec' = [codec EXCEPT !.phase = "packed", !.dc = packNodes(codec.x)]
    /\ UNCHANGED <<cacheVars, pool, tx>>

\* nodes = unpackNodes(deltaCoords, nodes) into a buffer without capacity
Decode ==
    /\ codec.phase = "packed"
    /\ LET got == unpackNodes(codec.dc, NilSlice, arrays)
       IN codec' = [codec EXCEPT !.phase = "unpacked",
                                 !.y = SliceData(got.slice, got.arrays)]
    /\ UNCHANGED <<cacheVars, pool, tx>>

CodecNext == Encode \/ Decode

CodecSpec == CodecInit /\ [][CodecNext]_vars

----------------------------------------------------------------------------
(* Fair scheduling of the calls in flight *)

Step(p) ==
    \/ GbLookup(p)
    \/ GbBlock(p)
    \/ GcSearch(p)
    \/ PcAppend(p)
    \/ PcSort(p)
    \/ PcUnlock(p)

\* The liveness check runs the same calls on fewer inputs: the first
\* identifier of the bunches 0..MaxLiveBunch, on a cache of capacity 1.
MaxLiveBunch == 1
MaxLiveLen == 2
MaxLiveRefs == 2

LiveIds == { b * BunchSize : b \in 0..MaxLiveBunch }

LiveNodes == { nd \in NodeSet : nd.Id \in LiveIds }

LiveWays == { NoWay } \cup
            { [nil |-> FALSE, Refs |-> r, Nodes |-> <<>>] :
                r \in SeqsUpTo(LiveIds, MaxLiveRefs) }

LiveInit == Init /\ capacity = 1

LiveNext ==
    \/ \E p \in Procs, id \in LiveIds : CallGetCoord(p, id)
    \/ \E p \in Procs, nodes \in SeqsUpTo(LiveNodes, MaxLiveLen) :
          CallPutCoords(p, nodes)
    \/ \E p \in Procs, way \in LiveWays : CallFillWay(p, way)
    \/ \E p \in Procs, way \in LiveWays : CallFillWayEmpty(p, way)
    \/ \E p \in Procs : Step(p)
    \/ Close

FairSpec == LiveInit /\ [][LiveNext]_vars /\ \A p \in Procs : WF_vars(Step(p))

----------------------------------------------------------------------------
(* The cache on a store whose Put returns an error *)

StoreInit ==
    /\ CacheInit
    /\ capacity = 1
    /\ fault = [put |-> TRUE, dropped |-> {}]
    /\ codec = NoCodec
    /\ pool = NoPool
    /\ tx = NoTx

StoreSpec == StoreInit /\ [][LiveNext]_vars

----------------------------------------------------------------------------
(* workerPool: NewWorkerPool, WorkerLoop, Wait, and a caller that submits   *)
(* its functions to p.In and then calls Wait                                *)

MaxWorker == 2       \* NewWorkerPool(worker, ...), worker in 1..MaxWorker
MaxTasks == 2        \* NewWorkerPool(..., tasks), tasks in 0..MaxTasks
MaxErr == 2          \* a function returns nil (0) or one of the errors 1..MaxErr

Workers == 1..MaxWorker

IdleWorker == [pc |-> "none", f |-> 0, val |-> 0]

\* p := NewWorkerPool(worker, tasks), and the functions fs of the caller
NewWorkerPool(worker, tasks, fs) ==
    [phase |-> "on", worker |-> worker, tasks |-> tasks, funcs |-> fs,
     sent |-> 0, In |-> <<>>, inClosed |-> FALSE, Out |-> <<>>, Wg |-> worker,
     loop |-> [w \in Workers |-> IF w <= worker
                                 THEN [IdleWorker EXCEPT !.pc = "range"]
                                 ELSE IdleWorker],
     finished |-> {}, caller |-> "submit", waiter |-> "none", ret |-> -1]

PoolInit ==
    /\ CacheInit
    /\ capacity = 1
    /\ fault = NoFault
    /\ codec = NoCodec
    /\ tx = NoTx
    /\ \E worker \in 1..MaxWorker, tasks \in 0..MaxTasks :
       \E fs \in SeqsUpTo(0..MaxErr, tasks) :
          pool = NewWorkerPool(worker, tasks, fs)

\* p.In <- f by the caller, for its next function
Submit ==
    /\ pool.caller = "submit"
    /\ pool.sent < Len(pool.funcs)
    /\ Len(pool.In) < pool.tasks
    /\ pool' = [pool EXCEPT !.sent = @ + 1, !.In = Append(@, pool.sent + 1)]
    /\ UNCHANGED <<cacheVars, codec, tx>>

\* Wait() up to its select: close(p.In), and the goroutine that will run
\* p.Wg.Wait() and done <- true
WaitClose ==
    /\ pool.caller = "submit"
    /\ pool.sent = Len(pool.funcs)
    /\ pool' = [pool EXCEPT !.inClosed = TRUE, !.caller = "select",
                            !.waiter = "wait"]
    /\ UNCHANGED <<cacheVars, codec, tx>>

\* for f := range p.In: the next function is received
WorkerRange(w) ==
    /\ pool.loop[w].pc = "range"
    /\ Len(pool.In) > 0
    /\ pool' = [pool EXCEPT !.In = Tail(@),
                            !.loop[w] = [pc |-> "call", f |-> Head(pool.In),
                                         val |-> 0]]
    /\ UNCHANGED <<cacheVars, codec, tx>>

\* f() returns
WorkerCall(w) ==
    /\ pool.loop[w].pc = "call"
    /\ pool' = [pool EXCEPT !.loop[w].pc = "send",
                            !.loop[w].val = pool.funcs[pool.loop[w].f],
                            !.finished = @ \cup {pool.loop[w].f}]
    /\ UNCHANGED <<cacheVars, codec, tx>>

\* p.Out <- (the value of f())
WorkerSend(w) ==
    /\ pool.loop[w].pc = "send"
    /\ Len(pool.Out) < pool.tasks
    /\ pool' = [pool EXCEPT !.Out = Append(@, pool.loop[w].val),
                            !.loop[w] = [IdleWorker EXCEPT !.pc = "range"]]
    /\ UNCHANGED <<cacheVars, codec, tx>>

\* a worker that ends without p.Wg.Done()
WorkerDoneLost(w) ==
    /\ pool.loop[w].pc = "range"
    /\ Len(pool.In) = 0
    /\ pool.inClosed
    /\ pool' = [pool EXCEPT !.loop[w] = [IdleWorker EXCEPT !.pc = "exit"]]
    /\ UNCHANGED <<cacheVars, codec, tx>>

\* the range over the closed and drained p.In ends: p.Wg.Done()
WorkerDone(w) ==
    /\ pool.loop[w].pc = "range"
    /\ Len(pool.In) = 0
    /\ pool.inClosed
    /\ pool' = [pool EXCEPT !.Wg = @ - 1,
                            !.loop[w] = [IdleWorker EXCEPT !.pc = "exit"]]
    /\ UNCHANGED <<cacheVars, codec, tx>>

\* p.Wg.Wait() returns in the goroutine of Wait
WgWait ==
    /\ pool.waiter = "wait"
    /\ pool.Wg = 0
    /\ pool' = [pool EXCEPT !.waiter = "send"]
    /\ UNCHANGED <<cacheVars, codec, tx>>

\* select takes case err := <-p.Out
SelectOut ==
    /\ pool.caller = "select"
    /\ Len(pool.Out) > 0
    /\ pool' = IF Head(pool.Out) # 0
               THEN [pool EXCEPT !.Out = Tail(@), !.ret = Head(pool.Out),
                                 !.caller = "returned"]
               ELSE [pool EXCEPT !.Out = Tail(@)]
    /\ UNCHANGED <<cacheVars, codec, tx>>

\* select takes case <-done, which meets done <- true: return nil
SelectDone ==
    /\ pool.caller = "select"
    /\ pool.waiter = "send"
    /\ pool' = [pool EXCEPT !.waiter = "exit", !.ret = 0,
                            !.caller = "returned"]
    /\ UNCHANGED <<cacheVars, codec, tx>>

PoolNext ==
    \/ Submit
    \/ WaitClose
    \/ \E w \in Workers : WorkerRange(w)
    \/ \E w \in Workers : WorkerCall(w)
    \/ \E w \in Workers : WorkerSend(w)
    \/ \E w \in Workers : WorkerDone(w)
    \/ WgWait
    \/ SelectOut
    \/ SelectDone

PoolSpec == PoolInit /\ [][PoolNext]_vars

\* every goroutine that can take a step eventually takes one
FairPoolSpec ==
    /\ PoolInit
    /\ [][PoolNext]_vars
    /\ WF_vars(Submit \/ WaitClose \/ SelectOut \/ SelectDone)
    /\ WF_vars(WgWait)
    /\ \A w \in Workers :
          WF_vars(WorkerRange(w) \/ WorkerCall(w) \/ WorkerSend(w)
                    \/ WorkerDone(w))

----------------------------------------------------------------------------
(* dropTableIfExists on a transaction: tx.log is the sequence of statements  *)
(* the transaction was given, each with its outcome                          *)

MaxIndex == 2        \* spatial indexes 1..MaxIndex

\* the index lists a database can hold: no index twice
IndexLists == { l \in SeqsUpTo(1..MaxIndex, MaxIndex) :
                  \A j, k \in 1..Len(l) : l[j] = l[k] => j = k }

Stmt(stmt, index, res) == [stmt |-> stmt, index |-> index, res |-> res]

\* dropTableIfExists(tx, qb, schema, table) is called on a database in which
\* the table exists or not, with the spatial indexes dbIndexes and with or
\* without a geometry column; idxSQL: qb.GeometryIndexesSQL is not ""
DropInit ==
    /\ CacheInit
    /\ capacity = 1
    /\ fault = NoFault
    /\ codec = NoCodec
    /\ pool = NoPool
    /\ \E t \in BOOLEAN, q \in BOOLEAN, l \in IndexLists, g \in BOOLEAN :
          tx = [phase |-> "on", table |-> t, idxSQL |-> q, dbIndexes |-> l,
                geom |-> g, pc |-> "tableExists", indexes |-> <<>>, i |-> 0,
                log |-> <<>>, ret |-> "none"]

\* where dropTableIfExists goes on after the index loop, or without it
AfterIndexes(t) == [t EXCEPT !.pc = "geomExists"]

\* where it goes on when the cursor has no more rows: the loop over indexes
AfterRows(t) ==
    IF Len(t.indexes) = 0 THEN AfterIndexes(t)
    ELSE [t EXCEPT !.pc = "disable", !.i = 1]

Failed(t) == [t EXCEPT !.pc = "returned", !.ret = "err"]

\* exists, err := tableExists(...): the query fails, or tells whether the
\* table exists
TableExists ==
    /\ tx.phase = "on"
    /\ tx.pc = "tableExists"
    /\ \E ok \in BOOLEAN :
          tx' = IF ~ok
                THEN Failed([tx EXCEPT
                               !.log = Append(@, Stmt("exists", 0, "err"))])
                ELSE IF ~tx.table
                THEN [tx EXCEPT !.log = Append(@, Stmt("exists", 0, "no")),
                                !.pc = "returned", !.ret = "nil"]
                ELSE [tx EXCEPT !.log = Append(@, Stmt("exists", 0, "yes")),
                                !.pc = IF tx.idxSQL THEN "query"
                                       ELSE "geomExists"]
    /\ UNCHANGED <<cacheVars, codec, pool>>

\* rows, err := tx.Query(sqlStmt)
QueryIndexes ==
    /\ tx.phase = "on"
    /\ tx.pc = "query"
    /\ \E ok \in BOOLEAN :
          tx' = IF ~ok
                THEN Failed([tx EXCEPT
                               !.log = Append(@, Stmt("query", 0, "err"))])
                ELSE [tx EXCEPT !.log = Append(@, Stmt("query", 0, "ok")),
                                !.pc = "rows"]
    /\ UNCHANGED <<cacheVars, codec, pool>>

\* one turn of for rows.Next(): rows.Scan(&index) and the append, or the end
\* of the rows
ScanRow ==
    /\ tx.phase = "on"
    /\ tx.pc = "rows"
    /\ IF Len(tx.indexes) = Len(tx.dbIndexes)
       THEN tx' = AfterRows(tx)
       ELSE \E ok \in BOOLEAN :
               tx' = IF ~ok THEN Failed(tx)
                     ELSE [tx EXCEPT !.indexes =
                             Append(@, tx.dbIndexes[Len(tx.indexes) + 1])]
    /\ UNCHANGED <<cacheVars, codec, pool>>

\* a loop that goes on to the drop after a failed disable
DisableIndexOn ==
    /\ tx.phase = "on"
    /\ tx.pc = "disable"
    /\ \E ok \in BOOLEAN :
          tx' = [tx EXCEPT !.log = Append(@, Stmt("disable", tx.indexes[tx.i],
                                                 IF ok THEN "ok" ELSE "err")),
                           !.pc = "drop"]
    /\ UNCHANGED <<cacheVars, codec, pool>>

\* tx.Exec(qb.DisableGeometryIndexSQL(schema, table, index))
DisableIndex ==
    /\ tx.phase = "on"
    /\ tx.pc = "disable"
    /\ \E ok \in BOOLEAN :
          tx' = IF ~ok
                THEN Failed([tx EXCEPT !.log =
                        Append(@, Stmt("disable", tx.indexes[tx.i], "err"))])
                ELSE [tx EXCEPT !.log =
                        Append(@, Stmt("disable", tx.indexes[tx.i], "ok")),
                                !.pc = "drop"]
    /\ UNCHANGED <<cacheVars, codec, pool>>

\* tx.Exec(qb.DropGeometryIndexSQL(schema, table, index)), and the next index
DropIndex ==
    /\ tx.phase = "on"
    /\ tx.pc = "drop"
    /\ \E ok \in BOOLEAN :
          tx' = IF ~ok
                THEN Failed([tx EXCEPT !.log =
                        Append(@, Stmt("drop", tx.indexes[tx.i], "err"))])
                ELSE LET t == [tx EXCEPT !.log =
                            Append(@, Stmt("drop", tx.indexes[tx.i], "ok"))]
                     IN IF tx.i = Len(tx.indexes) THEN AfterIndexes(t)
                        ELSE [t EXCEPT !.pc = "disable", !.i = tx.i + 1]
    /\ UNCHANGED <<cacheVars, codec, pool>>

\* tx.QueryRow(qb.GeometryColumnExistsSQL(schema, table)) and row.Scan
GeomColumnExists ==
    /\ tx.phase = "on"
    /\ tx.pc = "geomExists"
    /\ \E ok \in BOOLEAN :
          tx' = IF ~ok
                THEN Failed([tx EXCEPT
                               !.log = Append(@, Stmt("geomExists", 0, "err"))])
                ELSE [tx EXCEPT
                        !.log = Append(@, Stmt("geomExists", 0,
                                               IF tx.geom THEN "yes" ELSE "no")),
                        !.pc = IF tx.geom THEN "dropColumn" ELSE "dropTable"]
    /\ UNCHANGED <<cacheVars, codec, pool>>

\* tx.Exec(qb.DropGeometryColumnSQL(schema, table))
DropGeomColumn ==
    /\ tx.phase = "on"
    /\ tx.pc = "dropColumn"
    /\ \E ok \in BOOLEAN :
          tx' = IF ~ok
                THEN Failed([tx EXCEPT
                               !.log = Append(@, Stmt("dropColumn", 0, "err"))])
                ELSE [tx EXCEPT !.log = Append(@, Stmt("dropColumn", 0, "ok")),
                                !.pc = "dropTable"]
    /\ UNCHANGED <<cacheVars, codec, pool>>

\* tx.Exec(qb.DropTableSQL(schema, table)) and the return
DropTable ==
    /\ tx.phase = "on"
    /\ tx.pc = "dropTable"
    /\ \E ok \in BOOLEAN :
          tx' = IF ~ok
                THEN Failed([tx EXCEPT
                               !.log = Append(@, Stmt("dropTable", 0, "err"))])
                ELSE [tx EXCEPT !.log = Append(@, Stmt("dropTable", 0, "ok")),
                                !.pc = "returned", !.ret = "nil"]
    /\ UNCHANGED <<cacheVars, codec, pool>>

DropNext ==
    \/ TableExists
    \/ QueryIndexes
    \/ ScanRow
    \/ DisableIndex
    \/ DropIndex
    \/ GeomColumnExists
    \/ DropGeomColumn
    \/ DropTable

DropSpec == DropInit /\ [][DropNext]_vars

----------------------------------------------------------------------------
(* Properties *)

AllIdle == \A p \in Procs : pc[p] = "idle"

Returned(p, op) == pc[p] = "idle" /\ frame[p].op = op

\* the coordinate sequence a getBunch(b) would hand out now: that of the
\* resident bunch, else the decoding of what the store holds
Content(b) ==
    IF table[b] # 0 THEN SliceData(bunches[table[b]].coords, arrays)
    ELSE IF db[PutVarint(b)].present THEN unpackRecords(db[PutVarint(b)])
    ELSE <<>>

WouldFind(id) == FindCoord(Content(getBunchId(id)), id).found

ListValues == [k \in 1..Len(lruList) |-> lruList[k].Value]

StrictlySorted(x) == \A k \in 1..(Len(x) - 1) : x[k].Id < x[k + 1].Id

\* C1: in a sequential history, GetCoord(id) for an identifier that was
\* inserted returns found = true and a record with the identifier, the
\* longitude and the latitude that were inserted.
ReadAfterWrite ==
    \A p \in Procs :
        (~overlap /\ Returned(p, "GetCoord") /\ frame[p].known # {}) =>
            /\ frame[p].found
            /\ frame[p].node.Id = frame[p].id
            /\ <<frame[p].node.Long, frame[p].node.Lat>> \in frame[p].known

\* C2: once all calls have returned, every identifier that was passed to
\* PutCoords is found by GetCoord.
NoLostUpdates ==
    (AllIdle /\ ~closed) =>
        \A id \in NodeIds : inserted[id] # {} => WouldFind(id)

\* C3: unpackNodes(packNodes(x)) equals x, record by record, for every
\* identifier-sorted, duplicate-free x.
CodecRoundTrip == codec.phase = "unpacked" => codec.y = codec.x

\* C4: the recency list is the order of the latest getBunch of each bunch,
\* most recent first, so that every access puts its bunch at the front; and
\* once CheckCapacity has run the resident bunches are exactly the `capacity`
\* most recently accessed ones, so that each eviction took the resident bunch
\* whose latest access was the oldest and the first of capacity + 1 distinct
\* bunches accessed in a row is gone.
LruVictim ==
    /\ ListValues = SubSeq(recency, 1, Len(lruList))
    /\ Resident(table) = { lruList[k].Value : k \in 1..Len(lruList) }
    /\ mu = 0 =>
          Len(lruList) = IF Len(recency) < capacity THEN Len(recency)
                         ELSE capacity

LruVictimWitness ==
    /\ mu = 0
    /\ capacity = 2
    /\ Len(recency) = 3
    /\ evlog.id = recency[3]
    /\ evlog.id # 0
    /\ recency[1] # 0

\* C5: whenever the structural lock is free, the table holds at most
\* `capacity` bunches.
CapacityBound == mu = 0 => Cardinality(Resident(table)) <= capacity

CapacityBoundWitness ==
    /\ mu = 0
    /\ overlap
    /\ evlog.id # -1
    /\ Cardinality(Resident(table)) = capacity

\* C6: when a bunch that was mutated by PutCoords is evicted, the store
\* afterwards holds under its key the encoding of the bunch's coordinate
\* sequence at that moment.
DirtyWriteBack ==
    [][\A b \in BunchIds :
          (table[b] # 0 /\ table'[b] = 0 /\ bunches[table[b]].put) =>
             db'[PutVarint(b)] =
                packNodes(SliceData(bunches[table[b]].coords, arrays))]_vars

\* C7: the eviction of a bunch that was not the target of a PutCoords since
\* its load, and Close with such a bunch in the table, leave the store's
\* content under the bunch's key unchanged.
CleanNeverWritten ==
    [][/\ \A b \in BunchIds :
            (table[b] # 0 /\ table'[b] = 0 /\ ~bunches[table[b]].put) =>
               db'[PutVarint(b)] = db[PutVarint(b)]
       /\ (~closed /\ closed') =>
            \A b \in BunchIds :
               (table[b] # 0 /\ ~bunches[table[b]].put) =>
                  db'[PutVarint(b)] = db[PutVarint(b)]]_vars

CleanNeverWrittenWitness ==
    /\ evlog.id # -1
    /\ ~evlog.put
    /\ evlog.len > 0
    /\ db[PutVarint(evlog.id)].present

\* C8: FillWay returns true exactly when every GetCoord of its loop found its
\* reference id, and then the i-th node is a record of the i-th reference id;
\* it returns false when a reference id was never passed to PutCoords and
\* when the way is nil.
FillWayAllOrNothing ==
    \A p \in Procs : Returned(p, "FillWay") =>
        LET w == frame[p].way
            refs == 1..Len(w.Refs)
        IN /\ w.nil => ~frame[p].ret
           /\ ~w.nil =>
                (frame[p].ret <=>
                    /\ Len(frame[p].founds) = Len(w.Refs)
                    /\ \A i \in refs : frame[p].founds[i])
           /\ frame[p].ret =>
                \A i \in refs : /\ w.Nodes[i].Id = w.Refs[i]
                                /\ w.Nodes[i] # ZeroNode
           /\ (\E i \in refs : inserted[w.Refs[i]] = {}) => ~frame[p].ret

FillWayWitness ==
    \E p \in Procs :
        /\ Returned(p, "FillWay")
        /\ frame[p].ret
        /\ Len(frame[p].way.Refs) = 2
        /\ frame[p].way.Refs[1] > frame[p].way.Refs[2]

\* C9: under fair scheduling every call in flight eventually returns, and
\* when no call is in flight the structural lock and every bunch's lock are
\* free.
DeadlockFree ==
    /\ \A p \in Procs : (pc[p] # "idle") ~> (pc[p] = "idle")
    /\ [](AllIdle => (mu = 0 /\ \A o \in ObjIds : bunches[o].lock = 0))

DeadlockFreeWitness ==
    \E p \in Procs :
        /\ pc[p] = "gb_block"
        /\ bunches[frame[p].bunch].lock \notin {0, p}

\* C10: every bunch whose lock is not held has a coordinate sequence sorted
\* ascending by identifier with at most one record per identifier.
BunchInvariant ==
    \A o \in ObjIds :
        (bunches[o] # NoObj /\ bunches[o].lock = 0) =>
            StrictlySorted(SliceData(bunches[o].coords, arrays))

\* C11: a call during which the store failed the write of a flush does not
\* return as if the flush had succeeded, and Close does not complete after a
\* failed flush.
StoreErrorsSurfaced ==
    /\ \A p \in Procs : p \in fault.dropped => pc[p] # "idle"
    /\ 0 \in fault.dropped => ~closed

PoolErrors == { pool.funcs[k] : k \in 1..Len(pool.funcs) } \ {0}

\* C12: Wait returns nil only if every submitted function returned nil, and
\* if a submitted function returned an error Wait returns an error of one of
\* the submitted functions.
PoolResult ==
    pool.caller = "returned" =>
        /\ pool.ret = 0 => PoolErrors = {}
        /\ PoolErrors # {} => pool.ret \in PoolErrors

\* C13: at the moment Wait returns, every submitted function has finished;
\* none is still queued in p.In or still running.
PoolWaited ==
    pool.caller = "returned" =>
        /\ pool.finished = 1..Len(pool.funcs)
        /\ pool.In = <<>>
        /\ \A w \in Workers : pool.loop[w].pc # "call"

\* C20: a caller that submits at most `tasks` terminating functions and then
\* calls Wait is never blocked in a submission for ever, and its Wait
\* eventually returns, under fair scheduling.
PoolTerminates == <>(pool.caller = "returned")

PoolTerminatesWitness ==
    /\ pool.caller = "returned"
    /\ pool.worker > 1
    /\ pool.tasks > 1
    /\ pool.sent = pool.tasks
    /\ pool.ret = 0

\* the statements of a log, without their outcomes
Issued(log) == [k \in 1..Len(log) |-> <<log[k].stmt, log[k].index>>]

\* disable and drop of every index of l, index by index
RECURSIVE IndexStmts(_)
IndexStmts(l) ==
    IF Len(l) = 0 THEN <<>>
    ELSE << <<"disable", l[1]>>, <<"drop", l[1]>> >> \o IndexStmts(Tail(l))

\* the statements of a complete drop on the database of tx
DropPlan ==
    << <<"exists", 0>> >> \o
    (IF ~tx.table THEN <<>>
     ELSE (IF tx.idxSQL
           THEN << <<"query", 0>> >> \o IndexStmts(tx.dbIndexes) ELSE <<>>) \o
          << <<"geomExists", 0>> >> \o
          (IF tx.geom THEN << <<"dropColumn", 0>> >> ELSE <<>>) \o
          << <<"dropTable", 0>> >>)

Independence ==
    \A p \in Procs :
        (pc[p] = "gb_block" /\ mu = p) => bunches[frame[p].bunch].lock = 0

\* C16: when FillWay returns false for an unresolved reference id, the way's
\* node list holds none of the coordinates resolved before the failure.
PartialDiscarded ==
    \A p \in Procs :
        (Returned(p, "FillWay") /\ ~frame[p].ret /\ ~frame[p].way.nil) =>
            \A i \in 1..Len(frame[p].way.Nodes) :
                frame[p].way.Nodes[i] = ZeroNode

\* C17: for each bunch id at most one bunch object is in the table or locked
\* by a caller.
SingleResidency ==
    \A o1, o2 \in ObjIds :
        (/\ bunches[o1] # NoObj
         /\ bunches[o2] # NoObj
         /\ bunches[o1].id = bunches[o2].id
         /\ table[bunches[o1].id] = o1 \/ bunches[o1].lock # 0
         /\ table[bunches[o2].id] = o2 \/ bunches[o2].lock # 0) => o1 = o2

\* C18: when getBunch returns, the bunch it returns is in the table and at
\* the most recently used end of the recency list: the CheckCapacity of that
\* getBunch did not evict it.
FreshSurvives ==
    [][\A p \in Procs :
          (pc[p] = "gb_block" /\ pc'[p] # "gb_block") =>
             /\ table'[frame[p].bunchId] = frame[p].bunch
             /\ Len(lruList') > 0
             /\ lruList'[1].Value = frame[p].bunchId
             /\ lruList'[1].e = bunches'[frame[p].bunch].elem]_vars

FreshSurvivesWitness ==
    \E p \in Procs :
        /\ pc[p] \in {"gc_search", "pc_append"}
        /\ capacity = 1
        /\ Len(recency) > 1
        /\ recency[1] = frame[p].bunchId
        /\ evlog.id = recency[2]
        /\ table[frame[p].bunchId] = frame[p].bunch
        /\ bunches[frame[p].bunch].lock = p

\* C19: whenever the structural lock is free, the table and the recency list
\* hold the same bunch ids, the list holds each once, and the list linkage of
\* every resident bunch is the list element that carries its bunch id.
TableListAgree ==
    mu = 0 =>
        /\ Resident(table) = { lruList[k].Value : k \in 1..Len(lruList) }
        /\ \A j, k \in 1..Len(lruList) :
              lruList[j].Value = lruList[k].Value => j = k
        /\ \A b \in Resident(table) :
              \E k \in 1..Len(lruList) :
                 /\ lruList[k].e = bunches[table[b]].elem
                 /\ lruList[k].Value = b

TableListAgreeWitness ==
    /\ mu = 0
    /\ Len(lruList) = 2
    /\ evlog.id # -1
    /\ evlog.id \notin Resident(table)
    /\ \E p \in Procs : pc[p] # "idle"

====
